---- MODULE Spec2Model ----
(***************************************************************************)
(* Model of src/server.js: the in-memory session registry and socket.io    *)
(* event relay of the "Rinascimento Oscuro" server.                        *)
(*                                                                         *)
(* Node runs every handler to completion on one thread, so each handler    *)
(* (and each run of the cleanup timer) is one atomic action.               *)
(*                                                                         *)
(* Representation                                                          *)
(*   - socket ids are 1 .. NumConns, session ids are small integers;       *)
(*     0 (Null) stands for null / undefined in an id position;             *)
(*   - a JS Map is a function whose DOMAIN is the set of its keys;         *)
(*   - a field that may be missing holds the string "undefined";           *)
(*   - emitted is the set of events sent by the last handler, one record   *)
(*     per receiving socket; lastOp is the inbound event it handled.       *)
(***************************************************************************)
EXTENDS Integers, Sequences, FiniteSets, TLC

VARIABLES sessions, socket, now, sweepDue, emitted, lastOp

vars == <<sessions, socket, now, sweepDue, emitted, lastOp>>

----------------------------------------------------------------------------
(* Bounds of the model *)

NumConns == 2

MaxLog == 2

MaxHours == 1

(* Program constants *)
oneHour == 3600000

sweepInterval == 3600000

----------------------------------------------------------------------------
(* Value spaces *)

Null == 0

Undefined == "undefined"

Conns == 1 .. NumConns

\* The values the random session id can take
SessionIds == {1, 2}

Names == {"Anna"}

\* JS truthiness of a string-or-missing field: undefined and "" are falsy.
Truthy(x) == x \notin {Undefined, ""}

\* Map.set(k, v)
MapSet(m, k, v) == [x \in (DOMAIN m) \cup {k} |-> IF x = k THEN v ELSE m[x]]

EmptyMap == [x \in {} |-> Null]

----------------------------------------------------------------------------
(* The transport: rooms and the two fanout primitives *)

\* The sockets currently in room sid.  socket.io removes a socket from all
\* its rooms when it disconnects.
Room(sid) == {c \in Conns : socket[c].st = "open" /\ sid \in socket[c].rooms}

\* Mutant of SocketTo: the sender is not left out.
SocketToAll(c, sid) == Room(sid)

\* socket.to(sid): everyone in the room except the sending socket
SocketTo(c, sid) == Room(sid) \ {c}

\* io.to(sid): everyone in the room
IoTo(sid) == Room(sid)

\* socket.emit(...): one event to the sending socket
Emit(c, msg) == {[to |-> c] @@ msg}

\* <targets>.emit(...): one copy of the event per target
Broadcast(targets, msg) == {[to |-> t] @@ msg : t \in targets}

----------------------------------------------------------------------------
(* Initial state: no sessions, no connection made yet *)

NewSocket == [st |-> "new", sessionId |-> Null, playerId |-> Null,
              isMaster |-> Undefined, rooms |-> {}]

Init ==
    /\ sessions = EmptyMap
    /\ socket = [c \in Conns |-> NewSocket]
    /\ now = 0
    /\ sweepDue = sweepInterval
    /\ emitted = {}
    /\ lastOp = [op |-> "init", c |-> Null]

IsOpen(c) == socket[c].st = "open"

\* io.on('connection'): a new socket with a fresh id.  Ids are handed out in
\* increasing order; an id is never used twice.
Connect(c) ==
    /\ socket[c].st = "new"
    /\ \A d \in Conns : d < c => socket[d].st # "new"
    /\ socket' = [socket EXCEPT ![c].st = "open"]
    /\ emitted' = {}
    /\ lastOp' = [op |-> "connection", c |-> c]
    /\ UNCHANGED <<sessions, now, sweepDue>>

\* Date.now() advances between events: by a millisecond (from a whole hour)
\* or by an hour.
Tick ==
    \E d \in {1, oneHour} :
        /\ now + d <= MaxHours * oneHour + 1
        /\ (d = 1) => (now % oneHour) = 0
        /\ now' = now + d
        /\ emitted' = {}
        /\ lastOp' = [op |-> "tick", c |-> Null]
        /\ UNCHANGED <<sessions, socket, sweepDue>>

----------------------------------------------------------------------------
(* Client payloads *)

\* playerData of joinAsGameMaster / joinAsPlayer
PlayerDatas ==
    {[name |-> n, characterName |-> cn, characterConcept |-> Undefined] :
        n \in Names, cn \in {Undefined}}

\* x || ''
OrEmpty(x) == IF Truthy(x) THEN x ELSE ""

\* The PlayerRecord literal of joinAsGameMaster (isMaster = "true") and of
\* joinAsPlayer (isMaster = "false").  joinedAt is left out: nothing reads it.
\* character is missing until the first characterUpdate; a missing character
\* and {} are both the empty map (spreading either gives the same result).
NewPlayer(c, pd, master) ==
    [id |-> c,
     name |-> pd.name,
     characterName |-> OrEmpty(pd.characterName),
     characterConcept |-> OrEmpty(pd.characterConcept),
     isMaster |-> master,
     online |-> TRUE,
     wantsToBeMaster |-> Undefined,
     character |-> EmptyMap]

\* The session literal of createSession
NewSession(sid) ==
    [id |-> sid, masterId |-> Null, players |-> EmptyMap, gameLog |-> <<>>,
     gmNotes |-> Undefined, createdAt |-> now, lastActivity |-> now]

Has(sid) == sid \in DOMAIN sessions

\* Mutant of LiveMaster: the presence of the master is not looked at.
LiveMasterAnyPresence(s) == s.masterId # Null

\* Mutant of LiveMaster: the test of the master's presence is inverted.
LiveMasterInverted(s) ==
    /\ s.masterId # Null
    /\ s.masterId \in DOMAIN s.players
    /\ ~s.players[s.masterId].online

\* session.masterId && session.players.get(session.masterId)?.online
LiveMaster(s) ==
    /\ s.masterId # Null
    /\ s.masterId \in DOMAIN s.players
    /\ s.players[s.masterId].online

\* Mutant of Online: the flag is left as it was.
OnlineUnchanged(player) == player

\* player.online = true  (rejoinSession)
Online(player) == [player EXCEPT !.online = TRUE]

\* player.online = false  (disconnect)
Offline(player) == [player EXCEPT !.online = FALSE]

----------------------------------------------------------------------------
(* Modern handlers *)

\* 'rinascimento-' + Math.random().toString(36).substring(2, 8): the random
\* suffix is the input sid; nothing keeps it from naming an existing session.
createSession(c, sid) ==
    /\ IsOpen(c)
    /\ sessions' = MapSet(sessions, sid, NewSession(sid))
    /\ emitted' = Emit(c, [ev |-> "sessionCreated", sessionId |-> sid,
                           success |-> TRUE])
    /\ lastOp' = [op |-> "createSession", c |-> c, sid |-> sid]
    /\ UNCHANGED <<socket, now, sweepDue>>

joinSession(c, sid) ==
    /\ IsOpen(c)
    /\ lastOp' = [op |-> "joinSession", c |-> c, sid |-> sid]
    /\ UNCHANGED <<now, sweepDue>>
    /\ IF ~Has(sid)
       THEN /\ emitted' = Emit(c, [ev |-> "sessionError",
                                   message |-> "Sessione non trovata",
                                   code |-> "SESSION_NOT_FOUND"])
            /\ UNCHANGED <<sessions, socket>>
       ELSE /\ socket' = [socket EXCEPT ![c].rooms = @ \cup {sid},
                                        ![c].sessionId = sid]
            /\ sessions' = [sessions EXCEPT ![sid].lastActivity = now]
            /\ emitted' = Emit(c, [ev |-> "joinedSession", sessionId |-> sid,
                                   players |-> sessions[sid].players,
                                   gameLog |-> sessions[sid].gameLog])

joinAsGameMaster(c, sid, pd) ==
    /\ IsOpen(c)
    /\ lastOp' = [op |-> "joinAsGameMaster", c |-> c, sid |-> sid]
    /\ UNCHANGED <<now, sweepDue>>
    /\ IF ~Has(sid)
       THEN /\ emitted' = Emit(c, [ev |-> "sessionError",
                                   message |-> "Sessione non trovata",
                                   code |-> Undefined])
            /\ UNCHANGED <<sessions, socket>>
       ELSE IF LiveMaster(sessions[sid])
       THEN /\ emitted' = Emit(c, [ev |-> "sessionError",
                                   message |-> "C'e gia un Game Master in questa sessione",
                                   code |-> Undefined])
            /\ UNCHANGED <<sessions, socket>>
       ELSE LET player == NewPlayer(c, pd, "true") IN
            /\ sessions' = [sessions EXCEPT
                              ![sid].players = MapSet(@, c, player),
                              ![sid].masterId = c,
                              ![sid].lastActivity = now]
            /\ socket' = [socket EXCEPT ![c].playerId = c,
                                        ![c].isMaster = "true"]
            /\ emitted' =
                 Emit(c, [ev |-> "playerJoined", playerId |-> c,
                          playerData |-> player, isMaster |-> "true"])
                 \cup Broadcast(SocketTo(c, sid),
                                [ev |-> "playerUpdate", player |-> player])

joinAsPlayer(c, sid, pd) ==
    /\ IsOpen(c)
    /\ lastOp' = [op |-> "joinAsPlayer", c |-> c, sid |-> sid]
    /\ UNCHANGED <<now, sweepDue>>
    /\ IF ~Has(sid)
       THEN /\ emitted' = Emit(c, [ev |-> "sessionError",
                                   message |-> "Sessione non trovata",
                                   code |-> Undefined])
            /\ UNCHANGED <<sessions, socket>>
       ELSE LET player == NewPlayer(c, pd, "false") IN
            /\ sessions' = [sessions EXCEPT
                              ![sid].players = MapSet(@, c, player),
                              ![sid].lastActivity = now]
            /\ socket' = [socket EXCEPT ![c].playerId = c,
                                        ![c].isMaster = "false"]
            /\ emitted' =
                 Emit(c, [ev |-> "playerJoined", playerId |-> c,
                          playerData |-> player, isMaster |-> "false"])
                 \cup Broadcast(SocketTo(c, sid),
                                [ev |-> "playerUpdate", player |-> player])

rejoinSession(c, sid, pid) ==
    /\ IsOpen(c)
    /\ lastOp' = [op |-> "rejoinSession", c |-> c, sid |-> sid, pid |-> pid]
    /\ UNCHANGED <<now, sweepDue>>
    /\ IF ~Has(sid) \/ pid \notin DOMAIN sessions[sid].players
       THEN /\ emitted' = Emit(c, [ev |-> "sessionError",
                                   message |-> "Impossibile riconnettersi alla sessione",
                                   code |-> Undefined])
            /\ UNCHANGED <<sessions, socket>>
       ELSE LET player == Online(sessions[sid].players[pid]) IN
            /\ socket' = [socket EXCEPT ![c].rooms = @ \cup {sid},
                                        ![c].sessionId = sid,
                                        ![c].playerId = pid,
                                        ![c].isMaster = player.isMaster]
            /\ sessions' = [sessions EXCEPT
                              ![sid].players[pid] = player,
                              ![sid].lastActivity = now]
            /\ emitted' =
                 Emit(c, [ev |-> "playerJoined", playerId |-> pid,
                          playerData |-> player, isMaster |-> player.isMaster])
                 \cup Broadcast(SocketTo(c, sid),
                                [ev |-> "playerUpdate", player |-> player])

\* The record a closed socket leaves behind: the socket object is gone.
ClosedSocket == [NewSocket EXCEPT !.st = "closed"]

\* The transport closes the socket (it leaves all its rooms), then the
\* 'disconnect' handler runs.  The handler looks the player up by socket.id in
\* the session named by socket.sessionId.
disconnect(c) ==
    /\ IsOpen(c)
    /\ lastOp' = [op |-> "disconnect", c |-> c]
    /\ socket' = [socket EXCEPT ![c] = ClosedSocket]
    /\ UNCHANGED <<now, sweepDue>>
    /\ LET sid == socket[c].sessionId IN
       IF sid # Null /\ Has(sid) /\ c \in DOMAIN sessions[sid].players
       THEN LET player == Offline(sessions[sid].players[c]) IN
            /\ sessions' = [sessions EXCEPT
                              ![sid].players[c] = player,
                              ![sid].lastActivity = now]
            /\ emitted' =
                 Broadcast(SocketTo(c, sid),
                           [ev |-> "playerUpdate", player |-> player])
                 \cup Broadcast(SocketTo(c, sid),
                                [ev |-> "player_disconnected", playerId |-> c,
                                 playerName |-> player.name])
       ELSE /\ emitted' = {}
            /\ UNCHANGED sessions

----------------------------------------------------------------------------
(* characterUpdate *)

\* Mutant of Spread: the patch replaces the mapping.
SpreadReplace(a, b) == b

\* { ...a, ...b }: b's keys win, a's other keys stay
Spread(a, b) ==
    [k \in (DOMAIN a) \cup (DOMAIN b) |-> IF k \in DOMAIN b THEN b[k] ELSE a[k]]

\* data.character of a characterUpdate
Patches == {[a |-> 1], [b |-> 2], [a |-> 2]}

\* Payloads of characterUpdate.  has = FALSE: the payload carries no
\* character (data.character is falsy, the character field of the model is
\* then unused) and the broadcast carries character: undefined.
CharPayloads ==
    {[has |-> TRUE, character |-> p] : p \in Patches}
    \cup {[has |-> FALSE, character |-> EmptyMap]}

characterUpdate(c, data) ==
    /\ IsOpen(c)
    /\ lastOp' = [op |-> "characterUpdate", c |-> c, data |-> data]
    /\ UNCHANGED <<socket, now, sweepDue>>
    /\ LET sid == socket[c].sessionId
           pid == socket[c].playerId
       IN
       IF \/ sid = Null \/ pid = Null
          \/ ~Has(sid)
          \/ pid \notin DOMAIN sessions[sid].players
       THEN /\ emitted' = {}
            /\ UNCHANGED sessions
       ELSE LET player == sessions[sid].players[pid] IN
            /\ sessions' = [sessions EXCEPT
                 ![sid].players[pid].character =
                     IF data.has THEN Spread(@, data.character) ELSE @,
                 ![sid].lastActivity = now]
            /\ emitted' =
                 Broadcast(SocketTo(c, sid),
                           [ev |-> "gameStateUpdate",
                            type |-> "characterUpdate",
                            playerId |-> pid,
                            playerName |-> player.name,
                            hasCharacter |-> data.has,
                            character |-> data.character])

----------------------------------------------------------------------------
(* gameStateUpdate and the game log *)

\* Payloads of gameStateUpdate: a missing field holds "undefined"; roll is
\* the value of data.roll?.total as the template string prints it.
Payloads ==
    {[type |-> "diceRoll", playerName |-> Undefined, note |-> Undefined,
      roll |-> "15"],
     [type |-> "gmNote", playerName |-> "Anna", note |-> "n1",
      roll |-> Undefined],
     [type |-> "diceRoll", playerName |-> "", note |-> "", roll |-> Undefined],
     [type |-> "mapPing", playerName |-> "Anna", note |-> "n1",
      roll |-> "15"]}

\* The payloads of the fanout specification: the type that is not logged (the
\* logged types are the subject of the log specification)
FanoutPayloads == {d \in Payloads : ~(d.type = "diceRoll" \/ d.type = "gmNote")}

\* Mutant of LogEntry: the note is ignored, the content is always the summary.
LogEntryNoNote(data) ==
    [timestamp |-> now,
     type |-> data.type,
     author |-> IF Truthy(data.playerName) THEN data.playerName ELSE "Sistema",
     content |-> "Tiro dadi: " \o data.roll,
     data |-> data]

\* Mutant of Push: the entry is put in front.
PushFront(log, entry) == <<entry>> \o log

\* session.gameLog.push(entry)
Push(log, entry) == Append(log, entry)

\* The entry pushed for a diceRoll or gmNote payload
LogEntry(data) ==
    [timestamp |-> now,
     type |-> data.type,
     author |-> IF Truthy(data.playerName) THEN data.playerName ELSE "Sistema",
     content |-> IF Truthy(data.note) THEN data.note
                 ELSE "Tiro dadi: " \o data.roll,
     data |-> data]

\* data.type === 'diceRoll' || data.type === 'gmNote'
Logged(data) == data.type = "diceRoll" \/ data.type = "gmNote"

gameStateUpdate(c, data) ==
    /\ IsOpen(c)
    /\ lastOp' = [op |-> "gameStateUpdate", c |-> c, data |-> data]
    /\ UNCHANGED <<socket, now, sweepDue>>
    /\ LET sid == socket[c].sessionId IN
       IF sid = Null \/ ~Has(sid)
       THEN /\ emitted' = {}
            /\ UNCHANGED sessions
       ELSE /\ Logged(data) => Len(sessions[sid].gameLog) < MaxLog
            /\ sessions' = [sessions EXCEPT
                 ![sid].lastActivity = now,
                 ![sid].gameLog =
                     IF Logged(data) THEN Push(@, LogEntry(data)) ELSE @]
            /\ emitted' = Broadcast(IoTo(sid),
                                    [ev |-> "gameStateUpdate", data |-> data])

\* Payloads of the legacy game_message
GameMessages == {[author |-> "Anna", text |-> "ciao"]}

\* { ...data, timestamp: Date.now() }
Stamped(data) == [author |-> data.author, text |-> data.text,
                  timestamp |-> now]

game_message(c, data) ==
    /\ IsOpen(c)
    /\ lastOp' = [op |-> "game_message", c |-> c, data |-> data]
    /\ UNCHANGED <<socket, now, sweepDue>>
    /\ LET sid == socket[c].sessionId IN
       IF sid = Null \/ ~Has(sid)
       THEN /\ emitted' = {}
            /\ UNCHANGED sessions
       ELSE /\ Len(sessions[sid].gameLog) < MaxLog
            /\ sessions' = [sessions EXCEPT
                 ![sid].gameLog = Push(@, Stamped(data)),
                 ![sid].lastActivity = now]
            /\ emitted' = Broadcast(IoTo(sid),
                                    [ev |-> "game_message",
                                     message |-> Stamped(data)])

----------------------------------------------------------------------------
(* gmNotesUpdate *)

\* JS truthiness of a boolean-or-missing field: true only
Flag(x) == x = "true"

\* data of gmNotesUpdate
NotesPayloads == {[notes |-> "g1"]}

\* Mutant of Dropped: the sender is told of an error.
DroppedWithError(c) ==
    /\ emitted' = Emit(c, [ev |-> "sessionError",
                           message |-> "Sessione non trovata",
                           code |-> Undefined])
    /\ UNCHANGED sessions

\* return;  before anything is written or sent
Dropped(c) ==
    /\ emitted' = {}
    /\ UNCHANGED sessions

gmNotesUpdate(c, data) ==
    /\ IsOpen(c)
    /\ lastOp' = [op |-> "gmNotesUpdate", c |-> c, data |-> data]
    /\ UNCHANGED <<socket, now, sweepDue>>
    /\ LET sid == socket[c].sessionId IN
       IF sid = Null \/ ~Flag(socket[c].isMaster) \/ ~Has(sid)
       THEN Dropped(c)
       ELSE /\ sessions' = [sessions EXCEPT ![sid].gmNotes = data.notes,
                                            ![sid].lastActivity = now]
            /\ emitted' = Emit(c, [ev |-> "gmNotesSaved"])

----------------------------------------------------------------------------
(* Legacy handlers *)

\* The acknowledgement callback of a legacy event, as an event to the sender
Callback(c, msg) == Emit(c, [ev |-> "callback"] @@ msg)

\* The session literal of create_session: the log starts with one entry
LegacySession(sid) ==
    [NewSession(sid) EXCEPT
        !.gameLog = <<[author |-> "Sistema", text |-> "Sessione creata.",
                       timestamp |-> now]>>]

create_session(c, sid) ==
    /\ IsOpen(c)
    /\ sessions' = MapSet(sessions, sid, LegacySession(sid))
    /\ emitted' = Callback(c, [success |-> TRUE, sessionId |-> sid])
    /\ lastOp' = [op |-> "create_session", c |-> c, sid |-> sid]
    /\ UNCHANGED <<socket, now, sweepDue>>

\* playerData of join_session: with and without the request to be master.
\* The payloads carry no isMaster, online or id of their own.
LegacyPlayerDatas ==
    {[name |-> n, wantsToBeMaster |-> w] :
        n \in Names, w \in {Undefined, "true"}}

\* { ...playerData, id: socket.id, online: true }
LegacyPlayer(c, pd) ==
    [id |-> c,
     name |-> pd.name,
     characterName |-> Undefined,
     characterConcept |-> Undefined,
     isMaster |-> Undefined,
     online |-> TRUE,
     wantsToBeMaster |-> pd.wantsToBeMaster,
     character |-> EmptyMap]

\* Mutant of ClaimsMaster: the slot is free when the master is not online.
ClaimsMasterIfNoneLive(s, pd) == ~LiveMaster(s) /\ Flag(pd.wantsToBeMaster)

\* !session.masterId && playerData.wantsToBeMaster
ClaimsMaster(s, pd) == s.masterId = Null /\ Flag(pd.wantsToBeMaster)

join_session(c, sid, pd) ==
    /\ IsOpen(c)
    /\ lastOp' = [op |-> "join_session", c |-> c, sid |-> sid, pd |-> pd]
    /\ UNCHANGED <<now, sweepDue>>
    /\ IF ~Has(sid)
       THEN /\ emitted' = Callback(c, [success |-> FALSE,
                                       error |-> "Sessione non trovata"])
            /\ UNCHANGED <<sessions, socket>>
       ELSE LET claims == ClaimsMaster(sessions[sid], pd)
                player == [LegacyPlayer(c, pd) EXCEPT
                              !.isMaster = IF claims THEN "true" ELSE @]
                masterId == IF claims THEN c ELSE sessions[sid].masterId
                players == MapSet(sessions[sid].players, c, player)
            IN
            /\ socket' = [socket EXCEPT ![c].rooms = @ \cup {sid},
                                        ![c].sessionId = sid]
            /\ sessions' = [sessions EXCEPT ![sid].lastActivity = now,
                                            ![sid].players = players,
                                            ![sid].masterId = masterId]
            /\ emitted' =
                 Callback(c, [success |-> TRUE,
                              session |-> [id |-> sid,
                                           players |-> players,
                                           gameLog |-> sessions[sid].gameLog,
                                           masterId |-> masterId]])
                 \cup Broadcast(SocketTo(c, sid),
                                [ev |-> "player_joined", player |-> player])

\* data of update_player
PlayerUpdates == {[name |-> "Bea"]}

\* Object.assign(session.players.get(socket.id), data)
update_player(c, data) ==
    /\ IsOpen(c)
    /\ lastOp' = [op |-> "update_player", c |-> c, data |-> data]
    /\ UNCHANGED <<socket, now, sweepDue>>
    /\ LET sid == socket[c].sessionId IN
       IF sid = Null \/ ~Has(sid) \/ c \notin DOMAIN sessions[sid].players
       THEN Dropped(c)
       ELSE LET player == Spread(sessions[sid].players[c], data) IN
            /\ sessions' = [sessions EXCEPT ![sid].players[c] = player,
                                            ![sid].lastActivity = now]
            /\ emitted' = Broadcast(SocketTo(c, sid),
                                    [ev |-> "player_updated", playerId |-> c,
                                     playerData |-> player])

----------------------------------------------------------------------------
(* The hourly cleanup *)

\* Array.from(session.players.values()).every(player => !player.online)
allPlayersOffline(s) == \A p \in DOMAIN s.players : ~s.players[p].online

\* Mutant of Evictable: presence is not looked at.
EvictableIdle(s) == (now - s.lastActivity) > oneHour

\* The test that deletes a session
Evictable(s) == allPlayersOffline(s) /\ (now - s.lastActivity) > oneHour

\* One run of the setInterval callback, once its period has elapsed
sweep ==
    /\ now >= sweepDue
    /\ sweepDue' = sweepDue + sweepInterval
    /\ sessions' = [sid \in {x \in DOMAIN sessions : ~Evictable(sessions[x])}
                      |-> sessions[sid]]
    /\ emitted' = {}
    /\ lastOp' = [op |-> "sweep", c |-> Null]
    /\ UNCHANGED <<socket, now>>

----------------------------------------------------------------------------
(* Specifications *)

\* Connections that create sessions, attach to their rooms and leave
Attach(S) ==
    \/ \E c \in Conns : Connect(c)
    \/ \E c \in Conns, sid \in S : createSession(c, sid)
    \/ \E c \in Conns, sid \in S : joinSession(c, sid)
    \/ \E c \in Conns : disconnect(c)

\* ... and join as players
Players(S) ==
    \/ Attach(S)
    \/ \E c \in Conns, sid \in S, pd \in PlayerDatas :
          joinAsPlayer(c, sid, pd)

\* ... and come back under a player id
Returning(S) ==
    \/ Players(S)
    \/ \E c \in Conns, sid \in S, pid \in Conns :
          rejoinSession(c, sid, pid)

\* All join, rejoin and disconnect traffic addressed to the session ids S
Presence(S) ==
    \/ Returning(S)
    \/ \E c \in Conns, sid \in S, pd \in PlayerDatas :
          joinAsGameMaster(c, sid, pd)

\* The presence protocol on one session
Next == Presence({1})

Spec == Init /\ [][Next]_vars

\* The presence protocol on two sessions
NextTwo == Presence(SessionIds)

SpecTwo == Init /\ [][NextTwo]_vars

\* The presence protocol with game-state traffic
NextFanout ==
    \/ Presence({1})
    \/ \E c \in Conns, data \in FanoutPayloads : gameStateUpdate(c, data)

SpecFanout == Init /\ [][NextFanout]_vars

\* Players writing to the game log
NextLog ==
    \/ Players({1})
    \/ \E c \in Conns, data \in Payloads : gameStateUpdate(c, data)
    \/ \E c \in Conns, data \in GameMessages : game_message(c, data)

SpecLog == Init /\ [][NextLog]_vars

\* Players patching their characters
NextChar ==
    \/ Returning({1})
    \/ \E c \in Conns, data \in {d \in CharPayloads : d.has} :
          characterUpdate(c, data)

SpecChar == Init /\ [][NextChar]_vars

\* Players coming and going while time passes and the cleanup runs
NextSweep ==
    \/ Returning({1})
    \/ Tick
    \/ sweep

SpecSweep == Init /\ [][NextSweep]_vars

\* Game Masters of two sessions writing their notes
NextNotes ==
    \/ Attach(SessionIds)
    \/ \E c \in Conns, sid \in SessionIds, pd \in PlayerDatas :
          joinAsGameMaster(c, sid, pd)
    \/ \E c \in Conns, data \in NotesPayloads : gmNotesUpdate(c, data)

SpecNotes == Init /\ [][NextNotes]_vars

\* The legacy protocol on one session, beside createSession, joinSession and
\* joinAsGameMaster
NextLegacy ==
    \/ Attach({1})
    \/ \E c \in Conns, pd \in PlayerDatas : joinAsGameMaster(c, 1, pd)
    \/ \E c \in Conns : create_session(c, 1)
    \/ \E c \in Conns, pd \in LegacyPlayerDatas : join_session(c, 1, pd)
    \/ \E c \in Conns, data \in PlayerUpdates : update_player(c, data)

SpecLegacy == Init /\ [][NextLegacy]_vars

\* The binding of socket c names no session, or a session that is gone
NoSession(c) ==
    socket[c].sessionId = Null \/ ~Has(socket[c].sessionId)

\* ... or no player, or a player the session does not hold
NoPlayer(c) ==
    IF NoSession(c) THEN TRUE
    ELSE socket[c].playerId \notin DOMAIN sessions[socket[c].sessionId].players

\* ... or the session holds no record under the socket's own id
NoOwnRecord(c) ==
    IF NoSession(c) THEN TRUE
    ELSE c \notin DOMAIN sessions[socket[c].sessionId].players

\* Game Masters coming and going while the cleanup runs, and the in-session
\* events of the connections whose session or player is not there
NextStale ==
    \/ Attach({1})
    \/ \E c \in Conns, pd \in PlayerDatas : joinAsGameMaster(c, 1, pd)
    \/ Tick
    \/ sweep
    \/ \E c \in Conns, data \in {d \in CharPayloads : ~d.has} :
          NoPlayer(c) /\ characterUpdate(c, data)
    \/ \E c \in Conns, data \in {d \in Payloads : d.type = "gmNote"} :
          NoSession(c) /\ gameStateUpdate(c, data)
    \/ \E c \in Conns, data \in NotesPayloads :
          NoSession(c) /\ gmNotesUpdate(c, data)
    \/ \E c \in Conns, data \in GameMessages :
          NoSession(c) /\ game_message(c, data)
    \/ \E c \in Conns, data \in PlayerUpdates :
          NoOwnRecord(c) /\ update_player(c, data)

SpecStale == Init /\ [][NextStale]_vars

----------------------------------------------------------------------------
(* Vocabulary of the properties *)

\* The step is the handling of event op sent by socket c
Handles(op, c) == lastOp'.op = op /\ lastOp'.c = c

\* The sockets that receive event ev from the handler that ran last
Receivers(ev) == {m.to : m \in {x \in emitted : x.ev = ev}}

\* The open sockets, other than c, that are in room sid
OthersInRoom(c, sid) ==
    {d \in Conns \ {c} : socket[d].st = "open" /\ sid \in socket[d].rooms}

\* The records of session s that are master and online
LiveMasters(s) ==
    {p \in DOMAIN s.players :
        s.players[p].isMaster = "true" /\ s.players[p].online}

\* The session has a live master: masterId is set and that player is online
HasLiveMaster(s) ==
    \E p \in DOMAIN s.players : s.masterId = p /\ s.players[p].online

----------------------------------------------------------------------------
(* C1 *)

\* C1: in every reachable state each session holds at most one PlayerRecord
\* with isMaster = true and online = true.
C1_AtMostOneLiveMaster ==
    \A sid \in DOMAIN sessions : Cardinality(LiveMasters(sessions[sid])) <= 1

----------------------------------------------------------------------------
(* C2 *)

\* A joinAsGameMaster for a session without live master creates the master
\* record of the sender and makes the sender masterId.
C2_FirstWins ==
    \A c \in Conns, sid \in DOMAIN sessions :
        (/\ Handles("joinAsGameMaster", c)
         /\ lastOp'.sid = sid
         /\ ~HasLiveMaster(sessions[sid]))
        => /\ sid \in DOMAIN sessions'
           /\ sessions'[sid].masterId = c
           /\ c \in DOMAIN sessions'[sid].players
           /\ sessions'[sid].players[c].isMaster = "true"
           /\ sessions'[sid].players[c].online
           /\ Receivers("playerJoined")' = {c}
           /\ Receivers("sessionError")' = {}

\* The joinAsGameMaster of another socket that is handled right after an
\* accepted one, for the same session, is answered with sessionError and
\* changes no session.
C2_SecondLoses ==
    \A c1 \in Conns, c2 \in Conns :
        (/\ c1 # c2
         /\ lastOp.op = "joinAsGameMaster"
         /\ lastOp.c = c1
         /\ c1 \in Receivers("playerJoined")
         /\ Handles("joinAsGameMaster", c2)
         /\ lastOp'.sid = lastOp.sid)
        => /\ Receivers("sessionError")' = {c2}
           /\ Receivers("playerJoined")' = {}
           /\ sessions' = sessions
           /\ sessions'[lastOp.sid].masterId = c1

\* C2: of two joinAsGameMaster events from different sockets for a session
\* without live master, handled one after the other in either order, the
\* first creates the master record and becomes masterId, the second gets a
\* sessionError and creates no record.
C2_OneMasterPerRace == [][C2_FirstWins /\ C2_SecondLoses]_vars

\* A second socket has just been refused: the master is another, live socket
\* and the refused socket has no record.
C2_Witness ==
    /\ lastOp.op = "joinAsGameMaster"
    /\ Receivers("sessionError") = {lastOp.c}
    /\ lastOp.sid \in DOMAIN sessions
    /\ LET s == sessions[lastOp.sid] IN
       /\ s.masterId \in Conns \ {lastOp.c}
       /\ HasLiveMaster(s)
       /\ lastOp.c \notin DOMAIN s.players

----------------------------------------------------------------------------
(* C3 *)

\* C3: a rejoinSession for a player id of the session leaves the set of
\* PlayerRecords as it was, returns the record of that id with online = true
\* to the sender and sends a playerUpdate with it to the others in the room;
\* the id is still there for the next call.
C3_Step ==
    \A c \in Conns, sid \in DOMAIN sessions :
        (/\ Handles("rejoinSession", c)
         /\ lastOp'.sid = sid
         /\ lastOp'.pid \in DOMAIN sessions[sid].players)
        => LET pid == lastOp'.pid IN
           /\ sid \in DOMAIN sessions'
           /\ DOMAIN sessions'[sid].players = DOMAIN sessions[sid].players
           /\ Cardinality(DOMAIN sessions'[sid].players)
                = Cardinality(DOMAIN sessions[sid].players)
           /\ sessions'[sid].players[pid].online
           /\ sessions'[sid].players[pid].id = pid
           /\ \E m \in emitted' :
                /\ m.to = c
                /\ m.ev = "playerJoined"
                /\ m.playerId = pid
                /\ m.playerData = sessions'[sid].players[pid]
           /\ \A d \in OthersInRoom(c, sid)' :
                \E m \in emitted' :
                    /\ m.to = d
                    /\ m.ev = "playerUpdate"
                    /\ m.player = sessions'[sid].players[pid]
           /\ Receivers("sessionError")' = {}

C3_RejoinIdempotent == [][C3_Step]_vars

\* A socket other than the one that created the player has rejoined as that
\* player, got the record back, and another socket in the room was told.
C3_Witness ==
    /\ lastOp.op = "rejoinSession"
    /\ lastOp.pid # lastOp.c
    /\ lastOp.c \in Receivers("playerJoined")
    /\ Receivers("playerUpdate") # {}
    /\ lastOp.sid \in DOMAIN sessions
    /\ sessions[lastOp.sid].players[lastOp.pid].online

----------------------------------------------------------------------------
(* C4 *)

\* For a socket that has bound a player identity, disconnect marks that
\* player offline in the session that holds it, touches lastActivity and
\* tells the others in the room; the record and the session stay.
C4_Step ==
    \A c \in Conns, sid \in DOMAIN sessions :
        (/\ Handles("disconnect", c)
         /\ socket[c].playerId # Null
         /\ socket[c].playerId \in DOMAIN sessions[sid].players)
        => LET pid == socket[c].playerId IN
           /\ sid \in DOMAIN sessions'
           /\ pid \in DOMAIN sessions'[sid].players
           /\ ~sessions'[sid].players[pid].online
           /\ sessions'[sid].lastActivity = now
           /\ OthersInRoom(c, sid) \subseteq Receivers("playerUpdate")'

\* C4: disconnect of a socket bound to a player sets the player's online flag
\* to false, updates lastActivity and sends the presence change to the other
\* room members; it removes neither the record nor the session.
C4_DisconnectMarksOffline == [][C4_Step]_vars

----------------------------------------------------------------------------
(* C5 *)

\* C5: a PlayerRecord is online only while some open socket is bound to it.
C5_PresenceConsistent ==
    \A sid \in DOMAIN sessions :
        \A p \in DOMAIN sessions[sid].players :
            sessions[sid].players[p].online
            => \E c \in Conns : IsOpen(c) /\ socket[c].playerId = p

----------------------------------------------------------------------------
(* C6 *)

\* C6: a run of the cleanup removes exactly the sessions whose players are
\* all offline and whose lastActivity is more than the idle threshold ago;
\* a session with an online player, or within the threshold, stays as it is.
C6_Step ==
    lastOp'.op = "sweep"
    => \A sid \in DOMAIN sessions :
          LET s == sessions[sid]
              idle == now - s.lastActivity > oneHour
              offline == \A p \in DOMAIN s.players : ~s.players[p].online
          IN /\ (sid \notin DOMAIN sessions') <=> (offline /\ idle)
             /\ (sid \in DOMAIN sessions') => sessions'[sid] = s

C6_SweepRemovesExactlyIdleOffline == [][C6_Step]_vars

\* The cleanup has removed a session under a socket still attached to it.
C6_Witness ==
    /\ lastOp.op = "sweep"
    /\ \E c \in Conns :
          /\ IsOpen(c)
          /\ socket[c].sessionId # Null
          /\ socket[c].sessionId \notin DOMAIN sessions

----------------------------------------------------------------------------
(* C7 *)

IsPrefix(a, b) ==
    /\ Len(a) <= Len(b)
    /\ \A i \in 1 .. Len(a) : a[i] = b[i]

\* The session the socket's events are routed to
Routed(c) == socket[c].sessionId

\* The step is an accepted event of socket c that produces a log entry
Logs(c) ==
    /\ Routed(c) \in DOMAIN sessions
    /\ \/ Handles("game_message", c)
       \/ Handles("gameStateUpdate", c)
          /\ lastOp'.data.type \in {"diceRoll", "gmNote"}

\* The entry is the one of the event handled in this step
EntryOfEvent(e) ==
    \/ lastOp'.op = "gameStateUpdate" /\ e.data = lastOp'.data
    \/ /\ lastOp'.op = "game_message"
       /\ e.text = lastOp'.data.text
       /\ e.author = lastOp'.data.author

\* C7: while a session lives, every step leaves its gameLog a prefix of the
\* new gameLog (nothing removed, rewritten or reordered), and an event that
\* produces an entry puts it after all earlier entries.  A createSession that
\* draws the id again replaces the whole session, like an eviction.
C7_Step ==
    /\ \A sid \in DOMAIN sessions \cap DOMAIN sessions' :
          ~(lastOp'.op = "createSession" /\ lastOp'.sid = sid)
          => IsPrefix(sessions[sid].gameLog, sessions'[sid].gameLog)
    /\ \A c \in {lastOp'.c} \cap Conns :
          Logs(c)
          => LET old == sessions[Routed(c)].gameLog
                 new == sessions'[Routed(c)].gameLog
             IN /\ Len(new) = Len(old) + 1
                /\ EntryOfEvent(new[Len(new)])

C7_LogAppendOnlyInOrder == [][C7_Step]_vars

\* A log of two entries: a game_message, then the gameStateUpdate handled last.
C7_Witness ==
    /\ lastOp.op = "gameStateUpdate"
    /\ \E sid \in DOMAIN sessions :
          LET log == sessions[sid].gameLog IN
          /\ Len(log) = 2
          /\ log[1].author = "Anna" /\ "text" \in DOMAIN log[1]
          /\ log[2].data = lastOp.data

----------------------------------------------------------------------------
(* C8 *)

\* The text the handler derives from the roll total
C8_Summary(data) ==
    CASE data.roll = "15" -> "Tiro dadi: 15"
      [] data.roll = Undefined -> "Tiro dadi: undefined"

\* C8: an accepted gameStateUpdate appends exactly one entry for type
\* diceRoll or gmNote and none for another type; the author is the payload's
\* player name or "Sistema", the content is the note if there is one and else
\* the summary of the roll total, the data is the whole payload.
C8_Step ==
    \A c \in {lastOp'.c} \cap Conns :
        (Handles("gameStateUpdate", c) /\ Routed(c) \in DOMAIN sessions)
        => LET data == lastOp'.data
               old == sessions[Routed(c)].gameLog
               new == sessions'[Routed(c)].gameLog
           IN IF data.type \in {"diceRoll", "gmNote"}
              THEN /\ Len(new) = Len(old) + 1
                   /\ IsPrefix(old, new)
                   /\ LET e == new[Len(new)] IN
                      /\ e.type = data.type
                      /\ e.author = IF data.playerName \in {Undefined, ""}
                                    THEN "Sistema" ELSE data.playerName
                      /\ e.content = IF data.note \in {Undefined, ""}
                                     THEN C8_Summary(data) ELSE data.note
                      /\ e.data = data
              ELSE new = old

C8_LogEntryOfUpdate == [][C8_Step]_vars

\* A gmNote with a note and a player name has just been logged.
C8_Witness ==
    /\ lastOp.op = "gameStateUpdate"
    /\ lastOp.data.type = "gmNote"
    /\ \E sid \in DOMAIN sessions :
          LET log == sessions[sid].gameLog IN
          /\ Len(log) > 0
          /\ log[Len(log)].data = lastOp.data
          /\ log[Len(log)].content = "n1"
          /\ log[Len(log)].author = "Anna"

----------------------------------------------------------------------------
(* C9 *)

\* The open sockets in room sid
InRoom(sid) == {d \in Conns : socket[d].st = "open" /\ sid \in socket[d].rooms}

\* The open sockets, other than c, that are in room sid after the step
OthersAfter(c, sid) ==
    {d \in Conns \ {c} : socket'[d].st = "open" /\ sid \in socket'[d].rooms}

\* The presence events
PresenceEvents == {"playerUpdate", "player_disconnected"}

\* C9: an accepted gameStateUpdate goes, with the payload as sent, to every
\* socket of the session's room, the sender among them; the presence
\* broadcast of joinAsGameMaster, joinAsPlayer, rejoinSession and disconnect
\* goes to every other socket of the room and never to the sender.
C9_Step ==
    \A c \in {lastOp'.c} \cap Conns :
        /\ (Handles("gameStateUpdate", c) /\ Routed(c) \in DOMAIN sessions)
           => /\ emitted' = {[to |-> d, ev |-> "gameStateUpdate",
                              data |-> lastOp'.data] : d \in InRoom(Routed(c))}
              /\ c \in Receivers("gameStateUpdate")'
        /\ \A op \in {"joinAsGameMaster", "joinAsPlayer", "rejoinSession"} :
              (Handles(op, c) /\ c \in Receivers("playerJoined")')
              => /\ Receivers("playerUpdate")' = OthersAfter(c, lastOp'.sid)
                 /\ c \notin Receivers("playerUpdate")'
        /\ (Handles("disconnect", c) /\ sessions' # sessions)
           => /\ Receivers("playerUpdate")' = OthersInRoom(c, Routed(c))
              /\ Receivers("player_disconnected")' = OthersInRoom(c, Routed(c))
        /\ lastOp'.c = c /\ lastOp'.op # "gameStateUpdate"
           => \A m \in emitted' : m.ev \in PresenceEvents => m.to # c

C9_Fanout == [][C9_Step]_vars

\* A gameStateUpdate has been delivered to its sender and to another socket.
C9_Witness ==
    /\ lastOp.op = "gameStateUpdate"
    /\ lastOp.c \in Receivers("gameStateUpdate")
    /\ Receivers("gameStateUpdate") \ {lastOp.c} # {}

----------------------------------------------------------------------------
(* C10 *)

\* The step is a characterUpdate of socket c that is applied: the socket has
\* a session id and a player id, and the session holds that player
Patches_Applied(c) ==
    /\ Handles("characterUpdate", c)
    /\ lastOp'.data.has
    /\ socket[c].playerId # Null
    /\ Routed(c) \in DOMAIN sessions
    /\ socket[c].playerId \in DOMAIN sessions[Routed(c)].players

\* C10: after a bound player's characterUpdate with patch P the player's
\* character holds P's value for every key of P and the previous value for
\* every other key, and the other room members receive P itself.
C10_Step ==
    \A c \in {lastOp'.c} \cap Conns :
        Patches_Applied(c)
        => LET P == lastOp'.data.character
               old == sessions[Routed(c)].players[socket[c].playerId].character
               new == sessions'[Routed(c)].players[socket[c].playerId].character
           IN /\ DOMAIN new = DOMAIN old \cup DOMAIN P
              /\ \A k \in DOMAIN P : new[k] = P[k]
              /\ \A k \in DOMAIN old \ DOMAIN P : new[k] = old[k]
              /\ Receivers("gameStateUpdate")' = OthersInRoom(c, Routed(c))
              /\ \A m \in emitted' :
                    /\ m.type = "characterUpdate"
                    /\ m.character = P
                    /\ m.playerId = socket[c].playerId

C10_ShallowMerge == [][C10_Step]_vars

\* {a:1} and then {b:2}: the record holds both, and the other socket of the
\* room got the patch {b:2}.
C10_Witness ==
    /\ lastOp.op = "characterUpdate"
    /\ lastOp.data.has
    /\ lastOp.data.character = [b |-> 2]
    /\ Routed(lastOp.c) \in DOMAIN sessions
    /\ socket[lastOp.c].playerId \in DOMAIN sessions[Routed(lastOp.c)].players
    /\ sessions[Routed(lastOp.c)].players[socket[lastOp.c].playerId].character
         = [a |-> 1, b |-> 2]
    /\ \E m \in emitted : m.character = [b |-> 2]

----------------------------------------------------------------------------
(* C11 *)

\* Socket c is bound as Game Master of session sid: its binding names the
\* session, and the session names the binding's player as its master
BoundAsMaster(c, sid) ==
    /\ socket[c].sessionId = sid
    /\ socket[c].playerId # Null
    /\ sessions[sid].masterId = socket[c].playerId

\* C11: a gmNotesUpdate changes the gmNotes of a session, and is acknowledged
\* with gmNotesSaved, only when the sender is bound as Game Master of that
\* session; from any other socket it changes no gmNotes and is not
\* acknowledged.
C11_Step ==
    \A c \in {lastOp'.c} \cap Conns :
        Handles("gmNotesUpdate", c)
        => /\ \A sid \in DOMAIN sessions :
                sessions'[sid].gmNotes # sessions[sid].gmNotes
                => BoundAsMaster(c, sid)
           /\ Receivers("gmNotesSaved")' # {}
                => \E sid \in DOMAIN sessions : BoundAsMaster(c, sid)

C11_NotesMasterOnly == [][C11_Step]_vars

----------------------------------------------------------------------------
(* C12 *)

\* The error codes carried by the sessionError events of the last handler
ErrorCodes == {m.code : m \in {x \in emitted : x.ev = "sessionError"}}

\* The session named by the event handled in this step is not in the store
UnknownSession == lastOp'.sid \notin DOMAIN sessions

\* C12: a joinSession, joinAsGameMaster or joinAsPlayer that names an unknown
\* session is answered with a sessionError of code SESSION_NOT_FOUND, a
\* joinAsGameMaster while a live master exists with MASTER_ALREADY_PRESENT,
\* and a rejoinSession that names an unknown session or an unknown playerId
\* with REJOIN_FAILED.
C12_Step ==
    \A c \in {lastOp'.c} \cap Conns :
        /\ \A op \in {"joinSession", "joinAsGameMaster", "joinAsPlayer"} :
              (Handles(op, c) /\ UnknownSession)
              => /\ Receivers("sessionError")' = {c}
                 /\ ErrorCodes' = {"SESSION_NOT_FOUND"}
        /\ (/\ Handles("joinAsGameMaster", c)
            /\ ~UnknownSession
            /\ HasLiveMaster(sessions[lastOp'.sid]))
           => /\ Receivers("sessionError")' = {c}
              /\ ErrorCodes' = {"MASTER_ALREADY_PRESENT"}
        /\ (/\ Handles("rejoinSession", c)
            /\ IF UnknownSession THEN TRUE
               ELSE lastOp'.pid \notin DOMAIN sessions[lastOp'.sid].players)
           => /\ Receivers("sessionError")' = {c}
              /\ ErrorCodes' = {"REJOIN_FAILED"}

C12_ErrorCodes == [][C12_Step]_vars

----------------------------------------------------------------------------
(* C13 *)

\* The step handles a request of socket c that is to be refused: it names an
\* unknown session, or asks for the master slot of a session with a live
\* master, or names a playerId the session does not hold
Refused(c) ==
    \/ /\ lastOp'.op \in {"joinSession", "joinAsGameMaster", "joinAsPlayer"}
       /\ lastOp'.c = c
       /\ UnknownSession
    \/ /\ Handles("joinAsGameMaster", c)
       /\ ~UnknownSession
       /\ HasLiveMaster(sessions[lastOp'.sid])
    \/ /\ Handles("rejoinSession", c)
       /\ IF UnknownSession THEN TRUE
          ELSE lastOp'.pid \notin DOMAIN sessions[lastOp'.sid].players

\* C13: a refused joinSession, joinAsGameMaster, joinAsPlayer or rejoinSession
\* leaves every session (players, masterId, gameLog, lastActivity) and every
\* binding as they were; the sender gets a sessionError and no other socket
\* gets anything.
C13_Step ==
    \A c \in {lastOp'.c} \cap Conns :
        Refused(c)
        => /\ sessions' = sessions
           /\ socket' = socket
           /\ Receivers("sessionError")' = {c}
           /\ \A m \in emitted' : m.to = c

C13_RefusalChangesNothing == [][C13_Step]_vars

\* A joinAsGameMaster has just been refused in a session that has a live
\* master, while another socket sits in the room of that session.
C13_Witness ==
    /\ lastOp.op = "joinAsGameMaster"
    /\ Receivers("sessionError") = {lastOp.c}
    /\ lastOp.sid \in DOMAIN sessions
    /\ HasLiveMaster(sessions[lastOp.sid])
    /\ Room(lastOp.sid) \ {lastOp.c} # {}

----------------------------------------------------------------------------
(* C14 *)

\* The step handles an in-session event of socket c whose binding is stale
\* for it: no session (unset or gone) for gameStateUpdate, gmNotesUpdate and
\* game_message; no session or no player for characterUpdate; no session or
\* no record of its own for update_player and disconnect
Stale(c) ==
    \/ /\ lastOp'.op \in {"gameStateUpdate", "gmNotesUpdate", "game_message"}
       /\ lastOp'.c = c
       /\ NoSession(c)
    \/ Handles("characterUpdate", c) /\ NoPlayer(c)
    \/ /\ lastOp'.op \in {"update_player", "disconnect"}
       /\ lastOp'.c = c
       /\ NoOwnRecord(c)

\* C14: a characterUpdate, gameStateUpdate, gmNotesUpdate, game_message,
\* update_player or disconnect of a socket whose binding is stale changes no
\* session and sends no event (so no error either) to anyone.
C14_Step ==
    \A c \in {lastOp'.c} \cap Conns :
        Stale(c) => sessions' = sessions /\ emitted' = {}

C14_StaleDropped == [][C14_Step]_vars

\* A socket whose session the cleanup has removed has sent a game_message,
\* and nothing came of it.
C14_Witness ==
    /\ lastOp.op = "game_message"
    /\ socket[lastOp.c].sessionId # Null
    /\ socket[lastOp.c].sessionId \notin DOMAIN sessions
    /\ emitted = {}

----------------------------------------------------------------------------
(* C15 *)

\* C15: a createSession or create_session adds exactly one session, under an
\* id no session had, with no players, no master and createdAt =
\* lastActivity, and leaves every session that was there as it was.
C15_Step ==
    \A c \in {lastOp'.c} \cap Conns :
        (Handles("createSession", c) \/ Handles("create_session", c))
        => LET sid == lastOp'.sid IN
           /\ sid \notin DOMAIN sessions
           /\ DOMAIN sessions' = DOMAIN sessions \cup {sid}
           /\ sessions'[sid].players = EmptyMap
           /\ sessions'[sid].masterId = Null
           /\ sessions'[sid].createdAt = sessions'[sid].lastActivity
           /\ \A x \in DOMAIN sessions \ {sid} : sessions'[x] = sessions[x]

C15_CreateAddsFreshSession == [][C15_Step]_vars

----------------------------------------------------------------------------
(* C16 *)

\* C16: an accepted join_session makes the caller masterId, and marks the
\* caller's record isMaster, exactly when the payload asks for it and the
\* session's masterId is unset; when masterId is set, whether that master is
\* online or not, masterId stays and the caller's record is not marked.
C16_Step ==
    \A c \in {lastOp'.c} \cap Conns :
        (Handles("join_session", c) /\ ~UnknownSession)
        => LET old == sessions[lastOp'.sid]
               new == sessions'[lastOp'.sid]
           IN IF old.masterId = Null /\ lastOp'.pd.wantsToBeMaster = "true"
              THEN /\ new.masterId = c
                   /\ new.players[c].isMaster = "true"
              ELSE /\ new.masterId = old.masterId
                   /\ new.players[c].isMaster # "true"

----------------------------------------------------------------------------
(* C17 *)

\* C17: in every reachable state, an open socket whose playerId is set has
\* its sessionId set, and that playerId is a key of the players of the
\* session it names.
C17_BindingsWellFormed ==
    \A c \in Conns :
        (IsOpen(c) /\ socket[c].playerId # Null)
        => /\ socket[c].sessionId # Null
           /\ socket[c].sessionId \in DOMAIN sessions
           /\ socket[c].playerId
                \in DOMAIN sessions[socket[c].sessionId].players

----------------------------------------------------------------------------
(* C18 *)

\* C18: in every reachable state, a session's masterId, when set, is a key of
\* its players and names a record with isMaster = true.
C18_MasterInRoster ==
    \A sid \in DOMAIN sessions :
        LET s == sessions[sid] IN
        s.masterId # Null
        => /\ s.masterId \in DOMAIN s.players
           /\ s.players[s.masterId].isMaster = "true"

----------------------------------------------------------------------------
(* C19 *)

\* The events sent to the room of a session
RoomEvents ==
    {"playerUpdate", "player_disconnected", "player_joined", "player_updated",
     "gameStateUpdate", "game_message"}

\* The session whose room the handler of this step sends to: the one the
\* event names, else the one the sender's binding names
EventSession ==
    IF "sid" \in DOMAIN lastOp' THEN lastOp'.sid
    ELSE socket[lastOp'.c].sessionId

\* C19: a room event of a session is delivered only to sockets whose binding
\* names that session; once a socket has attached to another session it gets
\* no more events of the one it attached to before.
C19_Step ==
    \A m \in emitted' :
        m.ev \in RoomEvents => socket'[m.to].sessionId = EventSession

C19_RoomIsolation == [][C19_Step]_vars

----------------------------------------------------------------------------
(* C20 *)

\* No socket is open: every connection that ever joined has disconnected
AllDisconnected == \A c \in Conns : ~IsOpen(c)

\* C20: a session all of whose connections have disconnected is reclaimed by
\* the cleanup.  Only the cleanup removes sessions, and its test looks at the
\* players' online flags and the idle time alone; with no connection left no
\* event changes the flags and the idle time only grows.  So the session is
\* eventually removed only if a run of the cleanup that finds it idle for
\* more than the threshold, with all connections gone, removes it.
C20_Step ==
    lastOp'.op = "sweep"
    => \A sid \in DOMAIN sessions :
          (AllDisconnected /\ now - sessions[sid].lastActivity > oneHour)
          => sid \notin DOMAIN sessions'

C20_IdleReclaimed == [][C20_Step]_vars

====
